---- MODULE Spec2Model ----
(***************************************************************************)
(* Model of mad_math.py: the trial-division family (is_prime, primes_from, *)
(* next_prime, prime_factors, prime_factors_dict, prime_factors_i) and the *)
(* helpers eqd, perc and in_perc_range.                                    *)
(*                                                                         *)
(* Spec      : the three factorisation forms run on one input i, one loop  *)
(*             iteration per step (the generator also suspends at yield).  *)
(* FairSpec  : Spec plus the fairness of a caller that lets each call run. *)
(* SpecCalls : single calls of the pure functions on bounded inputs.       *)
(*                                                                         *)
(* Floats: sqrt(n) is kept as its radicand, so that `actual <= sqrt(n)` is *)
(* decided exactly; perc() is kept in hundredths.                          *)
(***************************************************************************)
EXTENDS Integers, Sequences, FiniteSets, TLC

VARIABLES i, pf, pfd, pfi, call

vars == <<i, pf, pfd, pfi, call>>

\* ---- bounds ----
MaxN == 50        \* inputs of the factorisation forms: 1..MaxN
NegX == 8         \* arguments of is_prime / next_prime: -NegX..MaxX
MaxX == 60
MaxNum == 12      \* in_perc_range: num within MaxNum of value
MaxAB == 3        \* eqd: |a|, |b|, |delta| <= MaxAB
MaxPrec == 2      \* eqd: precision in -MaxPrec..MaxPrec

\* ---- arithmetic helpers --------------------------------------------------
abs(x) == IF x < 0 THEN 0 - x ELSE x

\* math.sqrt(n), kept exactly as the radicand
sqrt(n) == [rad |-> n, trunc |-> FALSE]

\* int(sqrt(n)): the truncated square root
int_sqrt(n) == [rad |-> n, trunc |-> TRUE]

isqrt(n) == CHOOSE r \in 0..n : r * r <= n /\ (r + 1) * (r + 1) > n

\* a <= limit, for an integer a and a limit made by sqrt or int_sqrt
Leq(a, limit) ==
    IF limit.trunc THEN a <= isqrt(limit.rad)
    ELSE a < 0 \/ a * a <= limit.rad

RECURSIVE pow(_, _)
pow(b, e) == IF e = 0 THEN 1 ELSE b * pow(b, e - 1)

\* ---- is_prime ------------------------------------------------------------
\* mutation: exclusive limit test `a < limit`
RECURSIVE is_prime_while_excl(_, _)
is_prime_while_excl(x, a) ==
    IF a * a < x
    THEN IF x % a = 0 THEN FALSE ELSE is_prime_while_excl(x, a + 2)
    ELSE TRUE

RECURSIVE is_prime_while(_, _)
is_prime_while(x, a) ==
    IF Leq(a, sqrt(x))
    THEN IF x % a = 0 THEN FALSE ELSE is_prime_while(x, a + 2)
    ELSE TRUE

\* mutation: the even numbers are not rejected up front
is_prime_noeven(x) ==
    IF x < 2 THEN FALSE
    ELSE IF x \in {2, 3, 5, 7} THEN TRUE
    ELSE is_prime_while(x, 3)

is_prime(x) ==
    IF x < 2 \/ (x # 2 /\ x % 2 = 0) THEN FALSE
    ELSE IF x \in {2, 3, 5, 7} THEN TRUE
    ELSE is_prime_while(x, 3)

\* ---- primes_from / next_prime --------------------------------------------
RECURSIVE primes_from_while(_)
primes_from_while(n) ==
    IF is_prime(n) THEN n ELSE primes_from_while(n + 2)

\* first value yielded by the generator primes_from(n)
primes_from(n) ==
    LET n1 == n + 1
        n2 == IF n1 % 2 = 0 THEN n1 + 1 ELSE n1
    IN  primes_from_while(n2)

next_prime(n) == primes_from(n)

\* ---- perc / in_perc_range (default fun: identity) ------------------------
\* perc * value / 100, in hundredths
perc(value, perc_value) == perc_value * value

in_perc_range(num, value, perc_value) ==
    LET x == perc(value, perc_value)
    IN  100 * num >= 100 * value - x /\ 100 * num <= 100 * value + x

\* ---- eqd -----------------------------------------------------------------
eqd(a, b, delta, precision) ==
    IF precision < 0
    THEN [exc |-> "RuntimeError", ret |-> "none"]
    ELSE LET exp == pow(10, precision)
         IN  [exc |-> "none",
              ret |-> IF abs((abs(a) - abs(b)) * exp) <= abs(delta * exp)
                      THEN "True" ELSE "False"]

\* ---- the factorisation forms ---------------------------------------------
\* prime_factors: lines 130-132
pf_enter(n) ==
    [n |-> n, actual |-> 2, limit |-> int_sqrt(n), lst |-> <<>>, pc |-> "while"]

\* mutation: every candidate advances by 2
pf_body_step2(f) ==
    IF f.n % f.actual = 0
    THEN [f EXCEPT !.n = f.n \div f.actual,
                   !.limit = sqrt(f.n \div f.actual),
                   !.lst = Append(f.lst, f.actual)]
    ELSE [f EXCEPT !.actual = f.actual + 2]

\* prime_factors: the loop body, lines 134-139
pf_body(f) ==
    IF f.n % f.actual = 0
    THEN [f EXCEPT !.n = f.n \div f.actual,
                   !.limit = sqrt(f.n \div f.actual),
                   !.lst = Append(f.lst, f.actual)]
    ELSE [f EXCEPT !.actual = f.actual + 1 + (f.actual % 2)]

\* mutation: the remainder left after the loop is dropped
pf_tail_drop(f) == [f EXCEPT !.pc = "done"]

\* prime_factors: lines 140-142
pf_tail(f) ==
    [f EXCEPT !.lst = IF f.n > 1 THEN Append(f.lst, f.n) ELSE f.lst,
              !.pc = "done"]

\* mutation: factors[k] = 1
incr_set(factors, k) ==
    [x \in DOMAIN factors \cup {k} |-> IF x = k THEN 1 ELSE factors[x]]

\* factors[k] += 1 on a defaultdict(int)
incr(factors, k) ==
    [x \in DOMAIN factors \cup {k} |->
        IF x = k THEN (IF k \in DOMAIN factors THEN factors[k] ELSE 0) + 1
        ELSE factors[x]]

\* prime_factors_dict: lines 149-151
pfd_enter(n) ==
    [n |-> n, actual |-> 2, limit |-> int_sqrt(n),
     factors |-> [x \in {} |-> 0], pc |-> "while"]

\* mutation: the candidate advances after a successful division too
pfd_body_advance(f) ==
    IF f.n % f.actual = 0
    THEN [f EXCEPT !.n = f.n \div f.actual,
                   !.limit = sqrt(f.n \div f.actual),
                   !.factors = incr(f.factors, f.actual),
                   !.actual = f.actual + 1 + (f.actual % 2)]
    ELSE [f EXCEPT !.actual = f.actual + 1 + (f.actual % 2)]

\* prime_factors_dict: the loop body, lines 153-158
pfd_body(f) ==
    IF f.n % f.actual = 0
    THEN [f EXCEPT !.n = f.n \div f.actual,
                   !.limit = sqrt(f.n \div f.actual),
                   !.factors = incr(f.factors, f.actual)]
    ELSE [f EXCEPT !.actual = f.actual + 1 + (f.actual % 2)]

\* prime_factors_dict: lines 159-161
pfd_tail(f) ==
    [f EXCEPT !.factors = IF f.n > 1 THEN incr(f.factors, f.n) ELSE f.factors,
              !.pc = "done"]

\* prime_factors_i: the generator object before its first next()
pfi_new(num) ==
    [num |-> num, actual |-> 0, limit |-> int_sqrt(0), out |-> <<>>,
     pc |-> "new"]

\* prime_factors_i: lines 166-168
pfi_enter(g) ==
    [g EXCEPT !.actual = 2, !.limit = int_sqrt(g.num), !.pc = "while"]

\* prime_factors_i: the loop body, lines 170-175; suspends at the yield
pfi_body(g) ==
    IF g.num % g.actual = 0
    THEN [g EXCEPT !.num = g.num \div g.actual,
                   !.limit = sqrt(g.num \div g.actual),
                   !.out = Append(g.out, g.actual),
                   !.pc = "yield"]
    ELSE [g EXCEPT !.actual = g.actual + 1 + (g.actual % 2)]

\* mutation: `if num >= 1`
pfi_tail_ge(g) ==
    IF g.num >= 1
    THEN [g EXCEPT !.out = Append(g.out, g.num), !.pc = "last_yield"]
    ELSE [g EXCEPT !.pc = "done"]

\* prime_factors_i: lines 176-177; suspends at the last yield or ends
pfi_tail(g) ==
    IF g.num > 1
    THEN [g EXCEPT !.out = Append(g.out, g.num), !.pc = "last_yield"]
    ELSE [g EXCEPT !.pc = "done"]

NoCall == [fn |-> "none", args |-> <<>>, exc |-> "none", ret |-> "none"]

\* ---- Spec: the three forms on one input ----------------------------------
Init ==
    /\ i \in 1..MaxN
    /\ pf = pf_enter(i)
    /\ pfd = pfd_enter(i)
    /\ pfi = pfi_new(i)
    /\ call = NoCall

PF_Loop ==
    /\ pf.pc = "while"
    /\ Leq(pf.actual, pf.limit)
    /\ pf' = pf_body(pf)
    /\ UNCHANGED <<i, pfd, pfi, call>>

PF_Return ==
    /\ pf.pc = "while"
    /\ ~ Leq(pf.actual, pf.limit)
    /\ pf' = pf_tail(pf)
    /\ UNCHANGED <<i, pfd, pfi, call>>

PFD_Loop ==
    /\ pfd.pc = "while"
    /\ Leq(pfd.actual, pfd.limit)
    /\ pfd' = pfd_body(pfd)
    /\ UNCHANGED <<i, pf, pfi, call>>

PFD_Return ==
    /\ pfd.pc = "while"
    /\ ~ Leq(pfd.actual, pfd.limit)
    /\ pfd' = pfd_tail(pfd)
    /\ UNCHANGED <<i, pf, pfi, call>>

\* first next(): run to the first loop test
PFI_Start ==
    /\ pfi.pc = "new"
    /\ pfi' = pfi_enter(pfi)
    /\ UNCHANGED <<i, pf, pfd, call>>

PFI_Loop ==
    /\ pfi.pc = "while"
    /\ Leq(pfi.actual, pfi.limit)
    /\ pfi' = pfi_body(pfi)
    /\ UNCHANGED <<i, pf, pfd, call>>

PFI_Return ==
    /\ pfi.pc = "while"
    /\ ~ Leq(pfi.actual, pfi.limit)
    /\ pfi' = pfi_tail(pfi)
    /\ UNCHANGED <<i, pf, pfd, call>>

\* next() on a generator suspended at a yield
PFI_Resume ==
    /\ pfi.pc \in {"yield", "last_yield"}
    /\ pfi' = [pfi EXCEPT !.pc = IF pfi.pc = "yield" THEN "while" ELSE "done"]
    /\ UNCHANGED <<i, pf, pfd, call>>

Next ==
    \/ PF_Loop \/ PF_Return
    \/ PFD_Loop \/ PFD_Return
    \/ PFI_Start \/ PFI_Loop \/ PFI_Return \/ PFI_Resume

Spec == Init /\ [][Next]_vars

FairSpec ==
    /\ Spec
    /\ WF_vars(PF_Loop \/ PF_Return)
    /\ WF_vars(PFD_Loop \/ PFD_Return)
    /\ WF_vars(PFI_Start \/ PFI_Loop \/ PFI_Return \/ PFI_Resume)

\* ---- SpecCalls: single calls of the pure functions ------------------------
InitCalls ==
    /\ i = 1
    /\ pf = pf_enter(i)
    /\ pfd = pfd_enter(i)
    /\ pfi = pfi_new(i)
    /\ call = NoCall

Call_is_prime ==
    \E x \in (0 - NegX)..MaxX :
        /\ call' = [fn |-> "is_prime", args |-> <<x>>, exc |-> "none",
                    ret |-> IF is_prime(x) THEN "True" ELSE "False"]
        /\ UNCHANGED <<i, pf, pfd, pfi>>

Call_next_prime ==
    \E n \in (0 - NegX)..MaxX :
        /\ call' = [fn |-> "next_prime", args |-> <<n>>, exc |-> "none",
                    ret |-> next_prime(n)]
        /\ UNCHANGED <<i, pf, pfd, pfi>>

Call_in_perc_range ==
    \E value \in {0 - 100, 0 - 50, 0, 50, 100}, perc_value \in {0, 10, 20},
       d \in (0 - MaxNum)..MaxNum :
        /\ call' = [fn |-> "in_perc_range",
                    args |-> <<value + d, value, perc_value>>,
                    exc |-> "none",
                    ret |-> IF in_perc_range(value + d, value, perc_value)
                            THEN "True" ELSE "False"]
        /\ UNCHANGED <<i, pf, pfd, pfi>>

Call_eqd ==
    \E a \in (0 - MaxAB)..MaxAB, b \in (0 - MaxAB)..MaxAB, delta \in 0..MaxAB,
       precision \in (0 - MaxPrec)..MaxPrec :
        /\ call' = [fn |-> "eqd", args |-> <<a, b, delta, precision>>]
                      @@ eqd(a, b, delta, precision)
        /\ UNCHANGED <<i, pf, pfd, pfi>>

NextCalls ==
    \/ Call_is_prime
    \/ Call_next_prime
    \/ Call_in_perc_range
    \/ Call_eqd

SpecCalls == InitCalls /\ [][NextCalls]_vars

\* ---- reference notions used by the properties ------------------------------
\* x is prime: x >= 2 and no d with 1 < d < x divides x
IsPrime(x) == x >= 2 /\ \A d \in 2..(x - 1) : x % d # 0

RECURSIVE Product(_)
Product(s) == IF s = <<>> THEN 1 ELSE Head(s) * Product(Tail(s))

RECURSIVE DictProduct(_)
DictProduct(d) ==
    IF DOMAIN d = {} THEN 1
    ELSE LET k == CHOOSE x \in DOMAIN d : TRUE
         IN  pow(k, d[k]) * DictProduct([x \in DOMAIN d \ {k} |-> d[x]])

Elems(s) == {s[k] : k \in DOMAIN s}

Count(s, v) == Cardinality({k \in DOMAIN s : s[k] = v})

AllDone == pf.pc = "done" /\ pfd.pc = "done" /\ pfi.pc = "done"

\* ---- C1 ---------------------------------------------------------------------
\* C1: for every input i >= 2, once a form has returned, the product of the
\* list of prime_factors, the product of k**v over prime_factors_dict and the
\* product of the values yielded by prime_factors_i are each equal to i.
C1_ProductsEqualN ==
    i >= 2 =>
        /\ pf.pc = "done" => Product(pf.lst) = i
        /\ pfd.pc = "done" => DictProduct(pfd.factors) = i
        /\ pfi.pc = "done" => Product(pfi.out) = i

C1_Witness ==
    /\ AllDone
    /\ i >= 2
    /\ Len(pf.lst) >= 3
    /\ pf.lst[Len(pf.lst)] > pf.lst[1]

\* ---- C2 ---------------------------------------------------------------------
\* C2: for every input i >= 2, is_prime is True of every element of the list
\* returned by prime_factors, of every key of prime_factors_dict and of every
\* value yielded by prime_factors_i.
C2_FactorsArePrime ==
    i >= 2 =>
        /\ pf.pc = "done" => \A f \in Elems(pf.lst) : is_prime(f)
        /\ pfd.pc = "done" => \A f \in DOMAIN pfd.factors : is_prime(f)
        /\ \A f \in Elems(pfi.out) : is_prime(f)

C2_Witness ==
    /\ AllDone
    /\ i >= 2
    /\ Cardinality(Elems(pf.lst)) >= 3
    /\ Elems(pfi.out) = DOMAIN pfd.factors

\* ---- C3 ---------------------------------------------------------------------
\* C3: is_prime(x) is True exactly when x >= 2 and no d with 1 < d < x divides
\* x; it is False for x < 2 and for even x other than 2, True for 2, 3, 5, 7
\* and False for the squares 9, 25, 49 of odd primes.
C3_IsPrimeExact ==
    call.fn = "is_prime" =>
        LET x == call.args[1]
        IN  /\ (call.ret = "True") <=> IsPrime(x)
            /\ call.ret \in {"True", "False"}
            /\ x < 2 => call.ret = "False"
            /\ (x # 2 /\ x % 2 = 0) => call.ret = "False"
            /\ x \in {2, 3, 5, 7} => call.ret = "True"
            /\ x \in {9, 25, 49} => call.ret = "False"

C3_Witness ==
    /\ call.fn = "is_prime"
    /\ call.args = <<49>>
    /\ call.ret = "False"

\* ---- C4 ---------------------------------------------------------------------
\* C4: for every input i >= 1 the three forms agree: the list of prime_factors
\* is non-decreasing, prime_factors_i yields the same values in the same
\* order, and prime_factors_dict maps exactly the distinct elements of the
\* list, each to the number of its occurrences.
C4_FormsAgree ==
    (i >= 1 /\ AllDone) =>
        /\ \A k \in 1..(Len(pf.lst) - 1) : pf.lst[k] <= pf.lst[k + 1]
        /\ pfi.out = pf.lst
        /\ DOMAIN pfd.factors = Elems(pf.lst)
        /\ \A f \in DOMAIN pfd.factors : pfd.factors[f] = Count(pf.lst, f)

C4_Witness ==
    /\ AllDone
    /\ Cardinality(Elems(pf.lst)) >= 2
    /\ \E f \in DOMAIN pfd.factors : pfd.factors[f] >= 2
    /\ pfi.out = pf.lst

\* ---- C5 ---------------------------------------------------------------------
\* C5: for the input 1 the loop body is never entered and nothing is recorded:
\* the candidate stays 2, the remainder stays 1, and each form ends empty.
C5_OneIsEmpty ==
    i = 1 =>
        /\ pf.lst = <<>> /\ pf.actual = 2 /\ pf.n = 1
        /\ DOMAIN pfd.factors = {} /\ pfd.actual = 2 /\ pfd.n = 1
        /\ pfi.out = <<>> /\ pfi.num = 1 /\ pfi.pc \in {"new", "while", "done"}

C5_Witness == i = 1 /\ AllDone /\ pfi.out = <<>> /\ pf.lst = <<>>

\* ---- C6 ---------------------------------------------------------------------
\* C6: for every integer n, next_prime(n) is the smallest prime p with p > n.
C6_NextPrimeIsFirst ==
    call.fn = "next_prime" =>
        LET n == call.args[1]
            p == call.ret
        IN  /\ p > n
            /\ IsPrime(p)
            /\ \A q \in (n + 1)..(p - 1) : ~ IsPrime(q)

\* ---- C7 ---------------------------------------------------------------------
\* C7: eqd called with precision < 0 raises ValueError and returns nothing;
\* with precision >= 0 it raises nothing.
C7_EqdValueError ==
    call.fn = "eqd" =>
        IF call.args[4] < 0
        THEN call.exc = "ValueError" /\ call.ret = "none"
        ELSE call.exc = "none"

\* ---- C8 ---------------------------------------------------------------------
\* C8: for every input i >= 2 and every element f of the list returned by
\* prime_factors, is_prime(f + 7) is False.
C8_PlusSevenNotPrime ==
    (i >= 2 /\ pf.pc = "done") => \A f \in Elems(pf.lst) : ~ is_prime(f + 7)

C8_Witness ==
    /\ pf.pc = "done"
    /\ i >= 2
    /\ 2 \in Elems(pf.lst)
    /\ \E f \in Elems(pf.lst) : f > 2 /\ ~ is_prime(f + 7)

\* ---- C9 ---------------------------------------------------------------------
\* C9: in_perc_range(num, value, perc_value) is True exactly when
\* 100 * |num - value| <= perc_value * |value|, value negative included.
C9_InPercRange ==
    call.fn = "in_perc_range" =>
        LET num == call.args[1]
            value == call.args[2]
            perc_value == call.args[3]
        IN  (call.ret = "True")
                <=> (100 * abs(num - value) <= perc_value * abs(value))

\* ---- C10 --------------------------------------------------------------------
\* the loop invariant at a loop test: recorded product * remainder = i, the
\* candidate is 2 or odd, and nothing in 2..candidate-1 divides the remainder
LoopInv(recorded, rem, actual) ==
    /\ recorded * rem = i
    /\ actual = 2 \/ actual % 2 = 1
    /\ \A d \in 2..(actual - 1) : rem % d # 0

C10_Inv ==
    i >= 2 =>
        /\ pf.pc = "while" => LoopInv(Product(pf.lst), pf.n, pf.actual)
        /\ pfd.pc = "while"
               => LoopInv(DictProduct(pfd.factors), pfd.n, pfd.actual)
        /\ pfi.pc = "while" => LoopInv(Product(pfi.out), pfi.num, pfi.actual)

C10_NoAdvance ==
    /\ pf'.n # pf.n => pf'.actual = pf.actual
    /\ pfd'.n # pfd.n => pfd'.actual = pfd.actual
    /\ (pfi.pc = "while" /\ pfi'.num # pfi.num) => pfi'.actual = pfi.actual

\* C10: at every loop test of the three forms, for every input i >= 2, the
\* recorded product times the remainder is i, the candidate is 2 or odd and
\* nothing below the candidate divides the remainder; a successful division
\* leaves the candidate alone; and every loop ends.
C10_LoopInvariant ==
    /\ []C10_Inv
    /\ [][C10_NoAdvance]_vars
    /\ (i >= 2) ~> AllDone

C10_Witness ==
    /\ i >= 2
    /\ pf.pc = "while" /\ pf.actual >= 5 /\ Len(pf.lst) >= 2
    /\ pfd.pc = "while" /\ pfd.actual = 3 /\ DOMAIN pfd.factors = {2}
    /\ pfi.pc = "while" /\ pfi.actual = 3 /\ pfi.out # <<>>

====
